---- MODULE Spec2Model ----
(***************************************************************************)
(* The live-call component (LiveView): its connection state machine, the   *)
(* capture/dispatch callbacks, the playback scheduler and disconnect; and  *)
(* the text chat (DeepChat) with its generateContent requests.             *)
(*                                                                         *)
(* The component runs on one cooperative event loop.  One action of this   *)
(* module is one task of that loop together with the promise continuations *)
(* (microtasks) it makes runnable: a handler up to its first await on a    *)
(* promise that is still pending, or the continuation after such an await. *)
(* Awaiting (or .then on) a promise that is already settled continues in   *)
(* the same action.                                                        *)
(*                                                                         *)
(* The remote session is the vendor library's.  connect() returns a        *)
(* promise at once; when the socket opens the library calls onopen and     *)
(* resolves the promise in the same task; a socket error calls onerror,    *)
(* leaves a still-pending promise pending, and is followed by the close    *)
(* event (onclose); connect() may also reject before any socket exists,    *)
(* in which case no callback is called.  No message is delivered once the  *)
(* socket is closing or closed.                                            *)
(***************************************************************************)
EXTENDS Integers, Sequences, FiniteSets, TLC

\* Bounds of the model.
MaxCalls == 2       \* call attempts (clicks on "Call Maya")
MaxPlayCalls == 1   \* call attempts while playback is followed
MaxDisc == 2        \* runs of disconnect (hang-up clicks, unmount)
MaxCaptures == 2    \* audio buffers and video frames captured
MaxMsgs == 3        \* inbound server messages
MaxClock == 2       \* ticks of an output context's playback clock
MaxDur == 2         \* longest decoded chunk, in ticks
SampleDenom == 20   \* input samples are the multiples of 1/SampleDenom
MaxOver == 2        \* how far, in such steps, a sample may lie outside [-1, 1]
MaxBuf == 2         \* longest input buffer, in samples
MaxSends == 3       \* generateContent requests of the text chat

Calls == 1..MaxCalls
PlayCalls == 1..MaxPlayCalls
Durations == 1..MaxDur
\* A sample n stands for the float n / SampleDenom.
Samples == (0 - SampleDenom - MaxOver)..(SampleDenom + MaxOver)
Buffers == UNION {[1..n -> Samples] : n \in 1..MaxBuf}

VARIABLES
  \* React state and props of LiveView
  apiKey,                \* the apiKey prop is non-empty
  mounted,               \* the component is mounted (videoRef/canvasRef are set)
  connectionState,       \* the value last given to setConnectionState
  error,                 \* the value last given to setError
  \* refs of LiveView; 0 is null, otherwise the call attempt that made the object
  isConnectedRef,
  streamRef,
  videoSrc,              \* videoRef.current.srcObject
  audioContextRef,
  inputAudioContextRef,
  sessionPromiseRef,
  videoIntervalRef,
  nextStartTimeRef,
  sourceNodesRef,
  \* the call attempts and the objects they made
  pc,                    \* where connectToLiveApi of each attempt stands
  session,               \* the remote session of each attempt
  promise,               \* the promise ai.live.connect returned
  conts,                 \* continuations waiting on a pending connect promise
  liveStreams,           \* media streams whose tracks have not been stopped
  ctxMade,               \* attempts that created their two audio contexts
  closedIn,              \* input contexts that are closed
  closedOut,             \* output contexts that are closed
  activeTimers,          \* video intervals set and not cleared
  procs,                 \* script processors with onaudioprocess installed
  \* capture and dispatch
  nCap,                  \* payloads captured so far
  frames,                \* video frames between capture and dispatch
  inputData,             \* e.inputBuffer.getChannelData(0) of the buffer being encoded
  pcmBlob,               \* the samples of createPcmBlob(inputData)
  sentNow,               \* the sendRealtimeInput calls of the last step
  sentLog,               \* the payloads given to sendRealtimeInput, in the order of the calls
  \* playback
  nMsg,                  \* messages received so far
  dropped,               \* messages whose decode failed
  decodes,               \* onmessage invocations awaiting decodeAudioData
  nodes,                 \* the buffer sources started and not yet ended, by message id
  clk,                   \* currentTime of each output context
  lastSched,             \* the end of the chunk scheduled last since the cursor was reset
  raised,                \* line 257 has raised the cursor since that chunk
  preIntr,               \* pending decodes of chunks received before an interruption handled since
  intrNow,               \* the interruptions handled in the last step
  \* bookkeeping of the runs
  nDisc,                 \* runs of disconnect so far
  discLog,               \* the steps of the disconnect run that finished in the last step
  discPend,              \* attempts that were pending when a disconnect began
  camFailed,             \* attempts whose getUserMedia failed
  \* React state of DeepChat
  input,                 \* the text of the input field
  isLoading,             \* the value last given to setIsLoading
  messages,              \* the kinds of the messages shown, oldest first
  generating,            \* generateContent requests that have not settled
  nSend                  \* requests started so far

lifeVars == <<apiKey, mounted, connectionState, error, isConnectedRef, streamRef,
              videoSrc, audioContextRef, inputAudioContextRef, sessionPromiseRef,
              videoIntervalRef>>
envVars == <<pc, session, promise, conts, liveStreams, ctxMade, closedIn, closedOut,
             activeTimers, procs>>
capVars == <<nCap, frames, inputData, pcmBlob, sentLog>>
playVars == <<nextStartTimeRef, sourceNodesRef, nMsg, dropped, decodes, nodes, clk, lastSched,
              raised, preIntr>>
histVars == <<nDisc, discPend, camFailed>>
chatVars == <<input, isLoading, messages, generating, nSend>>
vars == <<lifeVars, envVars, capVars, playVars, histVars, chatVars, sentNow, discLog,
          intrNow>>

\* A step that sends nothing, finishes no run of disconnect and handles no
\* interruption.
NoOutput == sentNow' = {} /\ discLog' = <<>> /\ intrNow' = {}

Max(x, y) == IF x >= y THEN x ELSE y

\* No chunk has been scheduled since the cursor was last reset.
NoSched == -1

\* App (App.tsx lines 8-9): the error screen is shown when process.env.API_KEY
\* is empty.
showApiKeyError == ~apiKey

\* LiveView rendered whatever showApiKeyError says.
LiveViewRenderedAlways(show) == TRUE

\* App (App.tsx lines 11-23, 64-71): with showApiKeyError the error screen is
\* returned and LiveView is not rendered.
LiveViewRendered(show) == ~show

\* The component before any call.
InitCall ==
  /\ apiKey \in BOOLEAN
  /\ mounted = LiveViewRendered(showApiKeyError)
  /\ connectionState = "DISCONNECTED"
  /\ error = "none"
  /\ isConnectedRef = FALSE
  /\ streamRef = 0
  /\ videoSrc = 0
  /\ audioContextRef = 0
  /\ inputAudioContextRef = 0
  /\ sessionPromiseRef = 0
  /\ videoIntervalRef = 0
  /\ nextStartTimeRef = 0
  /\ sourceNodesRef = {}
  /\ pc = [a \in Calls |-> "idle"]
  /\ session = [a \in Calls |-> "none"]
  /\ promise = [a \in Calls |-> "none"]
  /\ conts = [a \in Calls |-> <<>>]
  /\ liveStreams = {}
  /\ ctxMade = {}
  /\ closedIn = {}
  /\ closedOut = {}
  /\ activeTimers = {}
  /\ procs = {}
  /\ nCap = 0
  /\ frames = {}
  /\ sentNow = {}
  /\ sentLog = <<>>
  /\ nMsg = 0
  /\ dropped = {}
  /\ decodes = {}
  /\ nodes = <<>>
  /\ clk = [a \in Calls |-> 0]
  /\ lastSched = NoSched
  /\ raised = FALSE
  /\ preIntr = {}
  /\ intrNow = {}
  /\ nDisc = 0
  /\ discLog = <<>>
  /\ discPend = {}
  /\ camFailed = {}
  /\ input = ""
  /\ isLoading = FALSE
  /\ messages = <<"welcome">>
  /\ generating = {}
  /\ nSend = 0

Init == InitCall /\ inputData = <<>> /\ pcmBlob = <<>>

(***************************************************************************)
(* connectToLiveApi (lines 133-314)                                        *)
(***************************************************************************)

\* The attempt is between the click and the end of its handshake.
Pending(a) == pc[a] \in {"camera", "resume"} \/ session[a] = "connecting"

\* Lines 148-161: setConnectionState(CONNECTING), setError(null), the two audio
\* contexts are created, and the function waits for them to resume.  The two
\* awaits (160, 161) are one suspension point: nothing is assigned between them.
EnterConnecting(a) ==
  /\ connectionState' = "CONNECTING"
  /\ error' = "none"
  /\ ctxMade' = ctxMade \cup {a}
  /\ pc' = [pc EXCEPT ![a] = "resume"]

\* The click on "Call Maya" (rendered while DISCONNECTED or ERROR, lines 381-385):
\* lines 134-146 up to the await of startCamera, or on to line 160 when a stream
\* is already held.
ConnectToLiveApi(a) ==
  /\ mounted
  /\ connectionState \in {"DISCONNECTED", "ERROR"}
  /\ pc[a] = "idle"
  /\ \A b \in Calls : b < a => pc[b] # "idle"
  /\ NoOutput
  /\ IF ~apiKey
       THEN /\ error' = "apikey"
            /\ pc' = [pc EXCEPT ![a] = "done"]
            /\ UNCHANGED <<connectionState, ctxMade>>
       ELSE IF streamRef = 0
         THEN /\ pc' = [pc EXCEPT ![a] = "camera"]
              /\ UNCHANGED <<connectionState, error, ctxMade>>
         ELSE EnterConnecting(a)
  /\ UNCHANGED <<apiKey, mounted, isConnectedRef, streamRef, videoSrc, audioContextRef,
                 inputAudioContextRef, sessionPromiseRef, videoIntervalRef>>
  /\ UNCHANGED <<session, promise, conts, liveStreams, closedIn, closedOut,
                 activeTimers, procs>>
  /\ UNCHANGED <<capVars, chatVars, playVars, histVars>>

\* startCamera, getUserMedia resolved (lines 97-101), then lines 144-161.
StartCameraOk(a) ==
  /\ pc[a] = "camera"
  /\ streamRef' = a
  /\ liveStreams' = liveStreams \cup {a}
  /\ videoSrc' = IF mounted THEN a ELSE videoSrc
  /\ EnterConnecting(a)
  /\ NoOutput
  /\ UNCHANGED <<apiKey, mounted, isConnectedRef, audioContextRef,
                 inputAudioContextRef, sessionPromiseRef, videoIntervalRef>>
  /\ UNCHANGED <<session, promise, conts, closedIn, closedOut, activeTimers, procs>>
  /\ UNCHANGED <<capVars, chatVars, playVars, histVars>>

\* startCamera's failure reported, but connectToLiveApi goes on to line 148 as if
\* the catch of lines 142-146 did not return.
StartCameraFailContinues(a) ==
  /\ pc[a] = "camera"
  /\ EnterConnecting(a)
  /\ camFailed' = camFailed \cup {a}
  /\ NoOutput
  /\ UNCHANGED <<apiKey, mounted, isConnectedRef, streamRef, videoSrc,
                 audioContextRef, inputAudioContextRef, sessionPromiseRef,
                 videoIntervalRef>>
  /\ UNCHANGED <<session, promise, conts, liveStreams, closedIn, closedOut,
                 activeTimers, procs>>
  /\ UNCHANGED <<capVars, chatVars, playVars, nDisc, discPend>>

\* startCamera, getUserMedia rejected (lines 102-106), then the return of line 145.
StartCameraFail(a) ==
  /\ pc[a] = "camera"
  /\ error' = "camera"
  /\ pc' = [pc EXCEPT ![a] = "done"]
  /\ camFailed' = camFailed \cup {a}
  /\ NoOutput
  /\ UNCHANGED <<apiKey, mounted, connectionState, isConnectedRef, streamRef, videoSrc,
                 audioContextRef, inputAudioContextRef, sessionPromiseRef,
                 videoIntervalRef>>
  /\ UNCHANGED <<session, promise, conts, liveStreams, ctxMade, closedIn, closedOut,
                 activeTimers, procs>>
  /\ UNCHANGED <<capVars, chatVars, playVars, nDisc, discPend>>

\* Lines 163-306 after the contexts resumed: the refs are assigned, the cursor
\* starts at the output clock, ai.live.connect is called and its promise stored.
ResumeOk(a) ==
  /\ pc[a] = "resume"
  /\ inputAudioContextRef' = a
  /\ audioContextRef' = a
  /\ nextStartTimeRef' = clk[a]
  /\ lastSched' = NoSched
  /\ raised' = FALSE
  /\ session' = [session EXCEPT ![a] = "connecting"]
  /\ promise' = [promise EXCEPT ![a] = "pending"]
  /\ sessionPromiseRef' = a
  /\ pc' = [pc EXCEPT ![a] = "done"]
  /\ NoOutput
  /\ UNCHANGED <<apiKey, mounted, connectionState, error, isConnectedRef, streamRef,
                 videoSrc, videoIntervalRef>>
  /\ UNCHANGED <<conts, liveStreams, ctxMade, closedIn, closedOut, activeTimers, procs>>
  /\ UNCHANGED <<capVars, chatVars, sourceNodesRef, nMsg, dropped, decodes, nodes, clk,
                 preIntr, histVars>>

\* The catch of lines 308-313: creating or resuming a context threw.
InitFail(a) ==
  /\ pc[a] = "resume"
  /\ error' = "init"
  /\ connectionState' = "ERROR"
  /\ isConnectedRef' = FALSE
  /\ pc' = [pc EXCEPT ![a] = "done"]
  /\ NoOutput
  /\ UNCHANGED <<apiKey, mounted, streamRef, videoSrc, audioContextRef,
                 inputAudioContextRef, sessionPromiseRef, videoIntervalRef>>
  /\ UNCHANGED <<session, promise, conts, liveStreams, ctxMade, closedIn, closedOut,
                 activeTimers, procs>>
  /\ UNCHANGED <<capVars, chatVars, playVars, histVars>>

(***************************************************************************)
(* disconnect (lines 316-340) and stopCamera (lines 109-118)               *)
(***************************************************************************)

\* stopCamera, given the timers and the interval ref as they stand.
StopCamera(timers, vref) ==
  /\ liveStreams' = IF streamRef # 0 THEN liveStreams \ {streamRef} ELSE liveStreams
  /\ streamRef' = 0
  /\ activeTimers' = IF vref # 0 THEN timers \ {vref} ELSE timers
  /\ videoIntervalRef' = 0

\* The steps of lines 328-339 with stopCamera called before the contexts are
\* closed.
RestLogCameraFirst(vref) ==
  (IF streamRef # 0 THEN <<"tracks">> ELSE <<>>)
  \o (IF vref # 0 THEN <<"timer">> ELSE <<>>)
  \o (IF inputAudioContextRef # 0 THEN <<"inputCtx">> ELSE <<>>)
  \o (IF audioContextRef # 0 THEN <<"outputCtx">> ELSE <<>>)
  \o <<"state">>

\* The steps lines 328-339 take, in the order they are taken.
RestLog(vref) ==
  (IF inputAudioContextRef # 0 THEN <<"inputCtx">> ELSE <<>>)
  \o (IF audioContextRef # 0 THEN <<"outputCtx">> ELSE <<>>)
  \o (IF streamRef # 0 THEN <<"tracks">> ELSE <<>>)
  \o (IF vref # 0 THEN <<"timer">> ELSE <<>>)
  \o <<"state">>

\* Lines 325-339: what disconnect does once the session has been dealt with.
\* log holds the steps taken before.
DisconnectRest(log, timers, vref) ==
  /\ sessionPromiseRef' = 0
  /\ closedIn' = IF inputAudioContextRef # 0 THEN closedIn \cup {inputAudioContextRef}
                                              ELSE closedIn
  /\ inputAudioContextRef' = 0
  /\ closedOut' = IF audioContextRef # 0 THEN closedOut \cup {audioContextRef}
                                          ELSE closedOut
  /\ audioContextRef' = 0
  /\ StopCamera(timers, vref)
  /\ connectionState' = "DISCONNECTED"
  /\ discLog' = log \o RestLog(vref)

DiscEntry == [k |-> "disc", id |-> 0, cap |-> 0]

\* session.close() (line 321) on the session of attempt p.
CloseSession(p) == [session EXCEPT ![p] = IF @ = "open" THEN "closing" ELSE @]

\* A call of disconnect: lines 317-340, or lines 317-320 when the connect promise is
\* still pending (the rest runs when that promise settles).
Disconnect ==
  /\ nDisc < MaxDisc
  /\ nDisc' = nDisc + 1
  /\ isConnectedRef' = FALSE
  /\ discPend' = discPend \cup {a \in Calls : Pending(a)}
  /\ sentNow' = {}
  /\ intrNow' = {}
  /\ IF sessionPromiseRef = 0
       THEN /\ DisconnectRest(<<"flag">>, activeTimers, videoIntervalRef)
            /\ UNCHANGED <<session, conts>>
       ELSE LET p == sessionPromiseRef IN
            CASE promise[p] = "pending" ->
                   /\ conts' = [conts EXCEPT ![p] = Append(@, DiscEntry)]
                   /\ discLog' = <<>>
                   /\ UNCHANGED <<session, sessionPromiseRef, closedIn, closedOut,
                                  inputAudioContextRef, audioContextRef, liveStreams,
                                  streamRef, activeTimers, videoIntervalRef,
                                  connectionState>>
              [] promise[p] = "resolved" ->
                   /\ session' = CloseSession(p)
                   /\ DisconnectRest(<<"flag", "await", "close", "null">>,
                                     activeTimers, videoIntervalRef)
                   /\ UNCHANGED conts
              [] promise[p] = "rejected" ->
                   /\ DisconnectRest(<<"flag", "await", "caught", "null">>,
                                     activeTimers, videoIntervalRef)
                   /\ UNCHANGED <<session, conts>>
  /\ UNCHANGED <<apiKey, error, videoSrc>>
  /\ UNCHANGED <<pc, promise, ctxMade, procs>>
  /\ UNCHANGED <<capVars, chatVars, playVars, camFailed>>

\* The click on "Hang Up" (rendered while CONNECTING or CONNECTED, lines 402-409).
HangUp ==
  /\ mounted
  /\ connectionState \in {"CONNECTING", "CONNECTED"}
  /\ Disconnect
  /\ UNCHANGED mounted

\* The cleanup of the effect (lines 343-348): the component unmounts.
Unmount ==
  /\ mounted
  /\ mounted' = FALSE
  /\ Disconnect

(***************************************************************************)
(* The session callbacks (lines 176-303)                                   *)
(***************************************************************************)

HasDisc(q) == \E i \in 1..Len(q) : q[i].k = "disc"

\* The sends of the continuations q queued on the promise of attempt a, run in
\* the order they were queued once the promise resolves (lines 193-199, 230-241):
\* isConnectedRef is true then, and a disconnect continuation queued earlier has
\* already set the state to DISCONNECTED.
QueuedSends(q, a) ==
  {[k |-> q[i].k, id |-> q[i].id, cap |-> q[i].cap, to |-> a,
    st |-> IF \E j \in 1..(i - 1) : q[j].k = "disc" THEN "DISCONNECTED"
                                                     ELSE "CONNECTED"] :
     i \in {j \in 1..Len(q) : q[j].k # "disc"}}

\* The try/catch of lines 195-199 and 232-241 with the payload sent again from
\* the catch.
SendRealtimeInputRetried(log, e, threw) ==
  IF threw
    THEN log \o <<[k |-> e.k, id |-> e.id, threw |-> TRUE],
                  [k |-> e.k, id |-> e.id, threw |-> FALSE]>>
    ELSE Append(log, [k |-> e.k, id |-> e.id, threw |-> FALSE])

\* The try/catch of lines 195-199 and 232-241 on the log of the calls made so
\* far: session.sendRealtimeInput is called once with payload e; when it throws
\* the catch logs the exception to the console and nothing else.
SendRealtimeInput(log, e, threw) ==
  Append(log, [k |-> e.k, id |-> e.id, threw |-> threw])

\* The sends of the continuations q made one after the other on log; T holds
\* the payloads whose send throws.
RECURSIVE QueuedLog(_, _, _)
QueuedLog(log, q, T) ==
  IF q = <<>> THEN log
  ELSE QueuedLog(IF Head(q).k = "disc" THEN log
                                      ELSE SendRealtimeInput(log, Head(q), Head(q).id \in T),
                 Tail(q), T)

\* onopen (lines 177-249), then the connect promise resolves and the
\* continuations waiting on it run.
OnOpen(a) ==
  /\ session[a] = "connecting"
  /\ LET q == conts[a]
         timers1 == IF mounted THEN activeTimers \cup {a} ELSE activeTimers
         vref1 == IF mounted THEN a ELSE videoIntervalRef
     IN /\ isConnectedRef' = TRUE
        /\ procs' = IF streamRef # 0 THEN procs \cup {a} ELSE procs
        /\ promise' = [promise EXCEPT ![a] = "resolved"]
        /\ conts' = [conts EXCEPT ![a] = <<>>]
        /\ sentNow' = QueuedSends(q, a)
        /\ \E T \in SUBSET {q[i].id : i \in {j \in 1..Len(q) : q[j].k # "disc"}} :
             sentLog' = QueuedLog(sentLog, q, T)
        /\ intrNow' = {}
        /\ IF HasDisc(q)
             THEN /\ session' = [session EXCEPT ![a] = "closing"]
                  /\ DisconnectRest(<<"flag", "await", "close", "null">>, timers1, vref1)
             ELSE /\ session' = [session EXCEPT ![a] = "open"]
                  /\ connectionState' = "CONNECTED"
                  /\ activeTimers' = timers1
                  /\ videoIntervalRef' = vref1
                  /\ discLog' = <<>>
                  /\ UNCHANGED <<sessionPromiseRef, closedIn, closedOut, streamRef,
                                 inputAudioContextRef, audioContextRef, liveStreams>>
  /\ UNCHANGED <<apiKey, mounted, error, videoSrc>>
  /\ UNCHANGED <<pc, ctxMade>>
  /\ UNCHANGED <<nCap, frames, inputData, chatVars, pcmBlob, playVars, nDisc, discPend,
                 camFailed>>

\* ai.live.connect rejects before a socket exists: no callback runs, the awaits
\* of disconnect throw into the catch of lines 322-324, the sends are dropped by
\* the .catch of lines 200-202 and 242-244.
ConnectReject(a) ==
  /\ session[a] = "connecting"
  /\ session' = [session EXCEPT ![a] = "failed"]
  /\ promise' = [promise EXCEPT ![a] = "rejected"]
  /\ conts' = [conts EXCEPT ![a] = <<>>]
  /\ sentNow' = {}
  /\ intrNow' = {}
  /\ IF HasDisc(conts[a])
       THEN DisconnectRest(<<"flag", "await", "caught", "null">>,
                           activeTimers, videoIntervalRef)
       ELSE /\ discLog' = <<>>
            /\ UNCHANGED <<sessionPromiseRef, closedIn, closedOut, streamRef,
                           inputAudioContextRef, audioContextRef, liveStreams,
                           activeTimers, videoIntervalRef, connectionState>>
  /\ UNCHANGED <<apiKey, mounted, error, isConnectedRef, videoSrc>>
  /\ UNCHANGED <<pc, ctxMade, procs>>
  /\ UNCHANGED <<capVars, chatVars, playVars, nDisc, discPend, camFailed>>

\* onerror (lines 297-302).
OnError(a) ==
  /\ session[a] \in {"connecting", "open"}
  /\ session' = [session EXCEPT ![a] = "errored"]
  /\ connectionState' = "ERROR"
  /\ isConnectedRef' = FALSE
  /\ error' = "connection"
  /\ NoOutput
  /\ UNCHANGED <<apiKey, mounted, streamRef, videoSrc, audioContextRef,
                 inputAudioContextRef, sessionPromiseRef, videoIntervalRef>>
  /\ UNCHANGED <<pc, promise, conts, liveStreams, ctxMade, closedIn, closedOut,
                 activeTimers, procs>>
  /\ UNCHANGED <<capVars, chatVars, playVars, histVars>>

\* onclose (lines 293-296): the remote end closed, or the close event that
\* follows session.close() or a socket error.
OnClose(a) ==
  /\ session[a] \in {"open", "closing", "errored"}
  /\ session' = [session EXCEPT ![a] = "closed"]
  /\ connectionState' = "DISCONNECTED"
  /\ isConnectedRef' = FALSE
  /\ NoOutput
  /\ UNCHANGED <<apiKey, mounted, error, streamRef, videoSrc, audioContextRef,
                 inputAudioContextRef, sessionPromiseRef, videoIntervalRef>>
  /\ UNCHANGED <<pc, promise, conts, liveStreams, ctxMade, closedIn, closedOut,
                 activeTimers, procs>>
  /\ UNCHANGED <<capVars, chatVars, playVars, histVars>>

(***************************************************************************)
(* Capture and dispatch (lines 186-247)                                    *)
(***************************************************************************)

\* sessionPromiseRef.current.then(...) of lines 193-202 and 230-244 for payload e,
\* called while the ref holds the promise of attempt p.
Dispatch(p, e) ==
  CASE promise[p] = "resolved" ->
         /\ sentNow' = IF isConnectedRef
                         THEN {[k |-> e.k, id |-> e.id, cap |-> e.cap, to |-> p,
                                st |-> connectionState]}
                         ELSE {}
         /\ IF isConnectedRef
              THEN \E threw \in BOOLEAN : sentLog' = SendRealtimeInput(sentLog, e, threw)
              ELSE UNCHANGED sentLog
         /\ UNCHANGED conts
    [] promise[p] = "pending" ->
         /\ conts' = [conts EXCEPT ![p] = Append(@, e)]
         /\ sentNow' = {}
         /\ UNCHANGED sentLog
    [] OTHER ->
         /\ sentNow' = {}
         /\ UNCHANGED <<conts, sentLog>>

\* onaudioprocess of the processor attempt a installed (lines 186-203); it fires
\* while its input context is open.  The early return of line 188 is the guard.
AudioProcess(a) ==
  /\ a \in procs
  /\ a \notin closedIn
  /\ nCap < MaxCaptures
  /\ isConnectedRef
  /\ sessionPromiseRef # 0
  /\ nCap' = nCap + 1
  /\ Dispatch(sessionPromiseRef,
              [k |-> "audio", id |-> nCap + 1, cap |-> sessionPromiseRef])
  /\ discLog' = <<>>
  /\ intrNow' = {}
  /\ UNCHANGED <<lifeVars, pc, session, promise, liveStreams, ctxMade, closedIn,
                 closedOut, activeTimers, procs, frames, inputData, chatVars, pcmBlob, playVars,
                 histVars>>

\* The interval callback of the timer attempt t set (lines 219-226): the frame is
\* drawn and toBlob is called.  video.readyState is 4 while the element shows a
\* live stream.
VideoTick(t) ==
  /\ t \in activeTimers
  /\ nCap < MaxCaptures
  /\ isConnectedRef
  /\ sessionPromiseRef # 0
  /\ videoSrc \in liveStreams
  /\ nCap' = nCap + 1
  /\ frames' = frames \cup {[id |-> nCap + 1, cap |-> sessionPromiseRef,
                             stage |-> "blob"]}
  /\ NoOutput
  /\ UNCHANGED <<lifeVars, envVars, inputData, chatVars, pcmBlob, sentLog, playVars, histVars>>

\* The toBlob callback (lines 227-229): blobToBase64 is started when connected.
ToBlobDone(f) ==
  /\ f \in frames
  /\ f.stage = "blob"
  /\ frames' = IF isConnectedRef
                 THEN (frames \ {f}) \cup {[f EXCEPT !.stage = "b64"]}
                 ELSE frames \ {f}
  /\ NoOutput
  /\ UNCHANGED <<lifeVars, envVars, nCap, inputData, chatVars, pcmBlob, sentLog, playVars,
                 histVars>>

\* blobToBase64 resolved (lines 229-245).
Base64Done(f) ==
  /\ f \in frames
  /\ f.stage = "b64"
  /\ frames' = frames \ {f}
  /\ IF sessionPromiseRef = 0
       THEN sentNow' = {} /\ UNCHANGED <<conts, sentLog>>
       ELSE Dispatch(sessionPromiseRef, [k |-> "video", id |-> f.id, cap |-> f.cap])
  /\ discLog' = <<>>
  /\ intrNow' = {}
  /\ UNCHANGED <<lifeVars, pc, session, promise, liveStreams, ctxMade, closedIn,
                 closedOut, activeTimers, procs, nCap, inputData, chatVars, pcmBlob, playVars,
                 histVars>>

(***************************************************************************)
(* createPcmBlob (utils/audio-utils, called at line 191)                   *)
(***************************************************************************)

NegScale == 32768
PosScale == 32767

Min(x, y) == IF x <= y THEN x ELSE y

\* A sample clamped to [-1, 1].
Clamp(n) == Max(0 - SampleDenom, Min(SampleDenom, n))

\* x / q with the fraction dropped, as a store into an Int16Array drops it.
Truncate(x, q) == IF x >= 0 THEN x \div q ELSE 0 - ((0 - x) \div q)

\* x / q rounded to the nearest integer, halves upwards, as Math.round does.
Round(x, q) == (2 * x + q) \div (2 * q)

\* An integer stored in an Int16Array element: it wraps modulo 2^16.
ToInt16(x) == ((x + 32768) % 65536) - 32768

\* Both signs scaled by 0x8000.
ScaledOneFactor(c) == c * NegScale

\* The clamped sample c scaled: negative values by 0x8000, the others by 0x7FFF.
Scaled(c) == IF c < 0 THEN c * NegScale ELSE c * PosScale

\* One sample converted; the encoder either drops the fraction or rounds it.
FloatToInt16(n, mode) ==
  ToInt16(IF mode = "round" THEN Round(Scaled(Clamp(n)), SampleDenom)
                            ELSE Truncate(Scaled(Clamp(n)), SampleDenom))

createPcmBlob(data, mode) == [i \in DOMAIN data |-> FloatToInt16(data[i], mode)]

\* Line 191: the buffer of an audio callback is encoded.
EncodeBuffer(mode) ==
  /\ pcmBlob = <<>>
  /\ pcmBlob' = createPcmBlob(inputData, mode)
  /\ NoOutput
  /\ UNCHANGED <<lifeVars, envVars, nCap, frames, inputData, chatVars, sentLog, playVars,
                 histVars>>

(***************************************************************************)
(* Playback (onmessage, lines 250-292)                                     *)
(***************************************************************************)

\* The decodes of ds that are still pending of chunks received before message id,
\* whose interruption is being handled: nothing in lines 283-291 cancels them.
StillPending(ds, id) == {d.id : d \in {e \in ds : e.id < id}}

\* Lines 283-291 on the handle set hs, the handles ns and the cursor cur as the
\* lines before left them: every handle of the set is stopped, the set cleared,
\* and the cursor reset to the clock of the output context the ref holds.  c is
\* the output context the message was received on (0: none).
Interrupt(hs, ns, cur, c) ==
  /\ nodes' = [h \in DOMAIN ns |->
                 IF h \in hs /\ ns[h].status = "scheduled"
                   THEN [ns[h] EXCEPT !.status = "stopped"]
                   ELSE ns[h]]
  /\ sourceNodesRef' = {}
  /\ nextStartTimeRef' = IF audioContextRef # 0 THEN clk[audioContextRef] ELSE cur
  /\ lastSched' = NoSched
  /\ raised' = FALSE
  /\ intrNow' = {[ctx |-> IF audioContextRef # 0 THEN audioContextRef ELSE c]}

\* Line 257 without the comparison with the clock: the cursor is kept as it is.
EnsureValidKeepsCursor(cur, now) == cur

\* Line 257: on the arrival of a chunk the cursor is raised to the playback clock.
EnsureValid(cur, now) == Max(cur, now)

\* onmessage of the session of attempt a, up to the await of line 260 when the
\* message carries audio and an output context is held, to its end otherwise.
OnMessage(a, audio, intr) ==
  /\ session[a] = "open"
  /\ nMsg < MaxMsgs
  /\ audio \/ intr
  /\ nMsg' = nMsg + 1
  /\ sentNow' = {}
  /\ discLog' = <<>>
  /\ IF audio /\ audioContextRef # 0
       THEN /\ nextStartTimeRef' = EnsureValid(nextStartTimeRef, clk[audioContextRef])
            /\ raised' = (raised \/ nextStartTimeRef' # nextStartTimeRef)
            /\ decodes' = decodes \cup {[id |-> nMsg + 1, ctx |-> audioContextRef,
                                         intr |-> intr,
                                         rose |-> clk[audioContextRef] > nextStartTimeRef]}
            /\ intrNow' = {}
            /\ UNCHANGED <<sourceNodesRef, nodes, lastSched, preIntr>>
       ELSE /\ IF intr
                 THEN /\ Interrupt(sourceNodesRef, nodes, nextStartTimeRef, 0)
                      /\ preIntr' = preIntr \cup StillPending(decodes, nMsg + 1)
                 ELSE /\ intrNow' = {}
                      /\ UNCHANGED <<sourceNodesRef, nodes, nextStartTimeRef,
                                     lastSched, raised, preIntr>>
            /\ UNCHANGED decodes
  /\ UNCHANGED <<lifeVars, envVars, capVars, chatVars, dropped, clk, histVars>>

\* The cursor moved on by one tick whatever the chunk's duration.
AdvanceByOne(cur, d) == cur + 1

\* Line 275: the cursor moves to the end of the chunk just started.
Advance(cur, d) == cur + d

\* decodeAudioData resolved with a buffer of duration d (lines 267-276), then the
\* interruption of lines 283-291 when the message carries one.
DecodeOk(m, d) ==
  /\ m \in decodes
  /\ decodes' = decodes \ {m}
  /\ LET ns == nodes @@ (m.id :> [start |-> nextStartTimeRef, dur |-> d,
                                  ctx |-> m.ctx, status |-> "scheduled"])
         hs == sourceNodesRef \cup {m.id}
         cur == Advance(nextStartTimeRef, d)
     IN IF m.intr
          THEN Interrupt(hs, ns, cur, m.ctx)
          ELSE /\ nodes' = ns
               /\ sourceNodesRef' = hs
               /\ nextStartTimeRef' = cur
               /\ lastSched' = nextStartTimeRef + d
               /\ raised' = FALSE
               /\ intrNow' = {}
  /\ preIntr' = (preIntr \ {m.id})
                   \cup (IF m.intr THEN StillPending(decodes', m.id) ELSE {})
  /\ sentNow' = {}
  /\ discLog' = <<>>
  /\ UNCHANGED <<lifeVars, envVars, capVars, chatVars, nMsg, dropped, clk, histVars>>

\* The failed decode handled with line 275 outside the try: the cursor moves on
\* although nothing was scheduled.
DecodeFailAdvances(m) ==
  /\ m \in decodes
  /\ decodes' = decodes \ {m}
  /\ IF m.intr
       THEN Interrupt(sourceNodesRef, nodes, nextStartTimeRef, m.ctx)
       ELSE /\ intrNow' = {}
            /\ nextStartTimeRef' = nextStartTimeRef + 1
            /\ UNCHANGED <<sourceNodesRef, nodes, lastSched, raised>>
  /\ preIntr' = (preIntr \ {m.id})
                   \cup (IF m.intr THEN StillPending(decodes', m.id) ELSE {})
  /\ sentNow' = {}
  /\ discLog' = <<>>
  /\ dropped' = dropped \cup {m.id}
  /\ UNCHANGED <<lifeVars, envVars, capVars, chatVars, nMsg, clk, histVars>>

\* decodeAudioData rejected: the catch of lines 277-279, then lines 283-291.
DecodeFail(m) ==
  /\ m \in decodes
  /\ decodes' = decodes \ {m}
  /\ IF m.intr
       THEN Interrupt(sourceNodesRef, nodes, nextStartTimeRef, m.ctx)
       ELSE /\ intrNow' = {}
            /\ UNCHANGED <<sourceNodesRef, nodes, nextStartTimeRef, lastSched, raised>>
  /\ preIntr' = (preIntr \ {m.id})
                   \cup (IF m.intr THEN StillPending(decodes', m.id) ELSE {})
  /\ sentNow' = {}
  /\ discLog' = <<>>
  /\ dropped' = dropped \cup {m.id}
  /\ UNCHANGED <<lifeVars, envVars, capVars, chatVars, nMsg, clk, histVars>>

\* The source ended but the listener does not delete it from the set.
EndedKeepsHandle(h) ==
  /\ h \in DOMAIN nodes
  /\ \/ /\ nodes[h].status = "scheduled"
        /\ nodes[h].ctx \notin closedOut
        /\ clk[nodes[h].ctx] >= nodes[h].start + nodes[h].dur
     \/ nodes[h].status = "stopped"
  /\ nodes' = [g \in DOMAIN nodes \ {h} |-> nodes[g]]
  /\ NoOutput
  /\ UNCHANGED <<lifeVars, envVars, capVars, chatVars, dropped, nextStartTimeRef,
                 sourceNodesRef, nMsg, decodes, clk, lastSched, raised, preIntr, histVars>>

\* The 'ended' listener of lines 270-272: the source played to its end on an open
\* context, or was stopped.  Nothing refers to the source afterwards.
Ended(h) ==
  /\ h \in DOMAIN nodes
  /\ \/ /\ nodes[h].status = "scheduled"
        /\ nodes[h].ctx \notin closedOut
        /\ clk[nodes[h].ctx] >= nodes[h].start + nodes[h].dur
     \/ nodes[h].status = "stopped"
  /\ nodes' = [g \in DOMAIN nodes \ {h} |-> nodes[g]]
  /\ sourceNodesRef' = sourceNodesRef \ {h}
  /\ NoOutput
  /\ UNCHANGED <<lifeVars, envVars, capVars, chatVars, dropped, nextStartTimeRef, nMsg,
                 decodes, clk, lastSched, raised, preIntr, histVars>>

\* The clock of output context c can still be read: connectToLiveApi is about to
\* (line 165), the ref holds it (lines 257, 289), or a source plays on it.
Observed(c) ==
  \/ pc[c] = "resume"
  \/ audioContextRef = c
  \/ \E h \in DOMAIN nodes : nodes[h].ctx = c /\ nodes[h].status = "scheduled"

\* currentTime of an open output context advances.
Tick(c) ==
  /\ c \in ctxMade
  /\ c \notin closedOut
  /\ Observed(c)
  /\ clk[c] < MaxClock
  /\ clk' = [clk EXCEPT ![c] = @ + 1]
  /\ NoOutput
  /\ UNCHANGED <<lifeVars, envVars, capVars, chatVars, dropped, nextStartTimeRef,
                 sourceNodesRef, nMsg, decodes, nodes, lastSched, raised, preIntr, histVars>>

(***************************************************************************)
(* The text chat (components/DeepChat.tsx)                                 *)
(***************************************************************************)

\* The texts the input field may hold.
TextValues == {"", " ", "hi"}

\* String.prototype.trim on those texts (lines 31, 142).
Trim(t) == IF t = " " THEN "" ELSE t

\* App (App.tsx lines 11-23, 73-79): DeepChat is rendered beside no error screen.
DeepChatRendered(show) == ~show

\* handleSend (lines 30-49) up to the await of generateContent: it returns early
\* on an empty input or a missing key (line 31), and on nothing else.
handleSend ==
  /\ ~(Trim(input) = "" \/ ~apiKey)
  /\ nSend < MaxSends
  /\ messages' = Append(messages, "user")
  /\ input' = ""
  /\ isLoading' = TRUE
  /\ nSend' = nSend + 1
  /\ generating' = generating \cup {nSend + 1}
  /\ NoOutput
  /\ UNCHANGED <<lifeVars, envVars, capVars, playVars, histVars>>

\* onChange of the input (line 135).
OnChange(t) ==
  /\ DeepChatRendered(showApiKeyError)
  /\ t # input
  /\ input' = t
  /\ NoOutput
  /\ UNCHANGED <<isLoading, messages, generating, nSend>>
  /\ UNCHANGED <<lifeVars, envVars, capVars, playVars, histVars>>

\* onKeyDown of the input with the Enter key (line 136).
PressEnter ==
  /\ DeepChatRendered(showApiKeyError)
  /\ handleSend

\* onClick of the send button, which is disabled while isLoading is true or the
\* input is blank (lines 140-142).
ClickSend ==
  /\ DeepChatRendered(showApiKeyError)
  /\ ~(isLoading \/ Trim(input) = "")
  /\ handleSend

\* The finally of lines 85-87.
Finally == isLoading' = FALSE

\* generateContent of request r resolved (lines 64-74), then the finally.
Responded(r) ==
  /\ r \in generating
  /\ generating' = generating \ {r}
  /\ messages' = Append(messages, "model")
  /\ Finally
  /\ NoOutput
  /\ UNCHANGED <<input, nSend>>
  /\ UNCHANGED <<lifeVars, envVars, capVars, playVars, histVars>>

\* generateContent of request r rejected: the catch of lines 76-84, then the
\* finally.
Rejected(r) ==
  /\ r \in generating
  /\ generating' = generating \ {r}
  /\ messages' = Append(messages, "error")
  /\ Finally
  /\ NoOutput
  /\ UNCHANGED <<input, nSend>>
  /\ UNCHANGED <<lifeVars, envVars, capVars, playVars, histVars>>

(***************************************************************************)
(* The specifications                                                      *)
(***************************************************************************)

Lifecycle(S) ==
  \/ \E a \in S : ConnectToLiveApi(a)
  \/ \E a \in Calls : StartCameraOk(a)
  \/ \E a \in Calls : StartCameraFail(a)
  \/ \E a \in Calls : ResumeOk(a)
  \/ \E a \in Calls : InitFail(a)
  \/ \E a \in Calls : OnOpen(a)
  \/ \E a \in Calls : ConnectReject(a)
  \/ \E a \in Calls : OnError(a)
  \/ \E a \in Calls : OnClose(a)
  \/ HangUp
  \/ Unmount

Capture ==
  \/ \E a \in Calls : AudioProcess(a)
  \/ \E t \in Calls : VideoTick(t)
  \/ \E f \in frames : ToBlobDone(f)
  \/ \E f \in frames : Base64Done(f)

Playback ==
  \/ \E a \in Calls, audio, intr \in BOOLEAN : OnMessage(a, audio, intr)
  \/ \E m \in decodes, d \in Durations : DecodeOk(m, d)
  \/ \E m \in decodes : DecodeFail(m)
  \/ \E h \in DOMAIN nodes : Ended(h)
  \/ \E c \in Calls : Tick(c)

\* The call with its capture and dispatch.
Next == Lifecycle(Calls) \/ Capture

Spec == Init /\ [][Next]_vars

\* The call with its inbound messages and playback.
NextPlayback == Lifecycle(PlayCalls) \/ Playback

SpecPlayback == Init /\ [][NextPlayback]_vars

\* The encoder applied to every input buffer.
InitPcm == InitCall /\ inputData \in Buffers /\ pcmBlob = <<>>

NextPcm == \E mode \in {"truncate", "round"} : EncodeBuffer(mode)

SpecPcm == InitPcm /\ [][NextPcm]_vars

\* The text chat.
NextChat ==
  \/ \E t \in TextValues : OnChange(t)
  \/ PressEnter
  \/ ClickSend
  \/ \E r \in generating : Responded(r)
  \/ \E r \in generating : Rejected(r)

SpecChat == Init /\ [][NextChat]_vars

(***************************************************************************)
(* The claims                                                              *)
(***************************************************************************)

\* A chunk is scheduled in this step (source.start, line 274).
Scheduled == DOMAIN nodes' \ DOMAIN nodes # {}

\* C1: sendRealtimeInput is never invoked while the connection state is not
\* CONNECTED, also from continuations queued before a disconnect, close or error.
C1_SendOnlyWhenConnected == \A s \in sentNow : s.st = "CONNECTED"

\* C2: no inbound chunk is scheduled for playback while the connection state is
\* not CONNECTED, also when its decode was pending when the call ended.
C2_ScheduleOnlyWhenConnected ==
  [][Scheduled => connectionState = "CONNECTED"]_vars

\* The chunk scheduled in this step.
NewNode == nodes'[CHOOSE h \in DOMAIN nodes' \ DOMAIN nodes : TRUE]

\* C3, as stated: while connected and with no interruption in between, each
\* chunk starts exactly where the chunk scheduled before it ends.
C3_BackToBackAlways ==
  [][(Scheduled /\ connectionState = "CONNECTED" /\ lastSched # NoSched)
       => NewNode.start = lastSched]_vars

\* C3, amended: with no interruption and no new call in between, a chunk starts
\* no earlier than the chunk scheduled before it ends, and exactly there unless
\* the playback clock had overtaken the cursor when a chunk arrived in between;
\* it starts at the cursor, and the cursor then moves on by its duration.
C3_BackToBackUnlessRaised ==
  [][Scheduled =>
       /\ NewNode.start = nextStartTimeRef
       /\ lastSched # NoSched => NewNode.start >= lastSched
       /\ (lastSched # NoSched /\ ~raised) => NewNode.start = lastSched
       /\ intrNow' = {} => nextStartTimeRef' = NewNode.start + NewNode.dur]_vars

\* Three chunks of one tick each were scheduled back to back from cursor 0.
C3_Witness ==
  /\ connectionState = "CONNECTED"
  /\ DOMAIN nodes = {1, 2, 3}
  /\ \A h \in DOMAIN nodes : nodes[h].dur = 1 /\ nodes[h].status = "scheduled"
  /\ {nodes[h].start : h \in DOMAIN nodes} = {0, 1, 2}
  /\ nextStartTimeRef = 3

\* C4: handling an interruption always stops every handle, leaves the set empty
\* and resets the cursor to the current playback clock.
C4_InterruptionResets ==
  \A i \in intrNow :
    /\ sourceNodesRef = {}
    /\ \A h \in DOMAIN nodes : nodes[h].status = "stopped"
    /\ i.ctx # 0 => nextStartTimeRef = clk[i.ctx]

\* onerror or onclose ran in this step.
RemoteEnd == \E a \in Calls : session'[a] \in {"errored", "closed"} /\ session[a] # session'[a]

\* C5: after onerror or onclose has run, the video timer is stopped, the camera
\* and microphone tracks are released and both audio contexts are closed.
C5_TeardownOnRemoteEnd ==
  [][RemoteEnd => /\ activeTimers' = {}
                  /\ liveStreams' = {}
                  /\ ctxMade' \subseteq (closedIn' \cap closedOut')]_vars

\* Everything disconnect releases is released.
Released ==
  /\ connectionState = "DISCONNECTED"
  /\ sessionPromiseRef = 0
  /\ inputAudioContextRef = 0
  /\ audioContextRef = 0
  /\ streamRef = 0
  /\ videoIntervalRef = 0

\* C6: every run of disconnect ends with the state DISCONNECTED and the session,
\* both contexts, the stream and the timer released (the objects the refs held
\* are closed, stopped and cleared); a run that starts there, such as the second
\* of two calls in a row, changes nothing.
C6_DisconnectIdempotent ==
  /\ [](discLog # <<>> => Released)
  /\ [][discLog' # <<>> =>
          /\ inputAudioContextRef # 0 => inputAudioContextRef \in closedIn'
          /\ audioContextRef # 0 => audioContextRef \in closedOut'
          /\ streamRef # 0 => streamRef \notin liveStreams'
          /\ (Released /\ conts' = conts) =>
               UNCHANGED <<connectionState, isConnectedRef, sessionPromiseRef,
                           inputAudioContextRef, audioContextRef, streamRef,
                           videoIntervalRef, session, closedIn, closedOut,
                           liveStreams, activeTimers, sourceNodesRef,
                           nextStartTimeRef, error>>]_vars

\* No run of disconnect is waiting for a connect promise.
NoDisconnectWaiting == \A a \in Calls : ~HasDisc(conts[a])

\* C7: when a disconnect began while a connect attempt was pending, then once
\* both have finished the session of that attempt is not open.
C7_PendingConnectClosed ==
  \A a \in discPend :
    (pc[a] = "done" /\ session[a] # "connecting" /\ NoDisconnectWaiting)
      => session[a] # "open"

\* C8: the state becomes CONNECTED only from CONNECTING, and capture is armed
\* only in that transition (a disconnect that was waiting for the handshake may
\* finish in the same step).
C8_ConnectedOnlyFromConnecting ==
  [][/\ (connectionState' = "CONNECTED" /\ connectionState # "CONNECTED")
          => connectionState = "CONNECTING"
     /\ (procs' # procs \/ ~(activeTimers' \subseteq activeTimers))
          => /\ connectionState = "CONNECTING"
             /\ connectionState' = "CONNECTED" \/ discLog' # <<>>]_vars

\* C9: an attempt whose camera/microphone acquisition failed set the error, never
\* set CONNECTING, holds no stream, and made no audio context and no session.
C9_CameraFailureAborts ==
  /\ [](\A a \in camFailed :
          /\ pc[a] = "done"
          /\ a \notin ctxMade
          /\ a \notin liveStreams
          /\ streamRef # a
          /\ session[a] = "none"
          /\ promise[a] = "none")
  /\ [][camFailed' # camFailed =>
          /\ error' = "camera"
          /\ connectionState' = connectionState
          /\ UNCHANGED <<streamRef, liveStreams, ctxMade, session, promise,
                         sessionPromiseRef, audioContextRef, inputAudioContextRef>>]_vars

\* The only attempt made so far failed to get the camera.
C9_Witness ==
  /\ camFailed = {1}
  /\ pc[2] = "idle"
  /\ error = "camera"
  /\ connectionState = "DISCONNECTED"
  /\ streamRef = 0

\* The place of a step of disconnect in the order of lines 317-339.
Rank(step) ==
  CASE step = "flag" -> 1
    [] step \in {"await", "close", "caught", "null"} -> 2
    [] step \in {"inputCtx", "outputCtx"} -> 3
    [] step \in {"tracks", "timer"} -> 4
    [] OTHER -> 5

\* C10: a run of disconnect clears the flag, then deals with the session, then
\* closes the contexts, then stops the timer and the camera; when awaiting the
\* session fails the error is caught and the later steps still run.
C10_DisconnectOrder ==
  discLog # <<>> =>
    /\ discLog[1] = "flag"
    /\ discLog[Len(discLog)] = "state"
    /\ \A i, j \in 1..Len(discLog) : i < j => Rank(discLog[i]) <= Rank(discLog[j])
    /\ Released
    /\ ctxMade \cap {sessionPromiseRef, inputAudioContextRef, audioContextRef} = {}

\* A run of disconnect whose await threw went on to close both contexts and to
\* stop the camera and the timer.
C10_Witness ==
  /\ Len(discLog) = 9
  /\ discLog[3] = "caught"

\* A message with audio arrived in this step and its decode is now pending.
Arrived == decodes' \ decodes

\* C11, as stated: during a call the cursor is never behind the clock of the
\* output context.
C11_CursorNeverBehindClock ==
  audioContextRef # 0 => nextStartTimeRef >= clk[audioContextRef]

\* C11, amended: the cursor is not behind the clock when set at call start, when
\* a chunk arrives and when an interruption resets it; a scheduled chunk moves it
\* on by exactly the chunk's duration.
C11_CursorRaisedOnArrival ==
  [][/\ (audioContextRef' # audioContextRef /\ audioContextRef' # 0)
          => nextStartTimeRef' = clk'[audioContextRef']
     /\ \A m \in Arrived : nextStartTimeRef' >= clk'[m.ctx]
     /\ \A i \in intrNow' : (i.ctx # 0 /\ i.ctx = audioContextRef')
                               => nextStartTimeRef' = clk'[i.ctx]
     /\ (Scheduled /\ intrNow' = {})
          => nextStartTimeRef' = nextStartTimeRef + NewNode.dur]_vars

\* A chunk arrived after the clock had overtaken the cursor, and line 257 raised
\* the cursor to the clock.
C11_Witness ==
  /\ decodes # {}
  /\ raised
  /\ audioContextRef # 0
  /\ clk[audioContextRef] > 0
  /\ nextStartTimeRef = clk[audioContextRef]

\* The sources whose 'ended' event was handled in this step.
Completed == DOMAIN nodes \ DOMAIN nodes'

\* C12: a decoded chunk creates one handle; a handle is in the set from its
\* scheduling until it completes or an interruption clears the set; completion
\* removes it, and the completion of a handle an interruption had removed leaves
\* the set as it is.
C12_HandleLifetime ==
  /\ [](/\ sourceNodesRef \subseteq DOMAIN nodes
        /\ \A h \in DOMAIN nodes : nodes[h].status = "scheduled" => h \in sourceNodesRef)
  /\ [][/\ Scheduled => \E m \in decodes \ decodes' :
                           DOMAIN nodes' \ DOMAIN nodes = {m.id}
        /\ (Scheduled /\ intrNow' = {}) =>
              sourceNodesRef' = sourceNodesRef \cup (DOMAIN nodes' \ DOMAIN nodes)
        /\ \A h \in sourceNodesRef \ sourceNodesRef' : intrNow' # {} \/ h \in Completed
        /\ \A h \in Completed :
              /\ h \notin sourceNodesRef'
              /\ h \notin sourceNodesRef => sourceNodesRef' = sourceNodesRef]_vars

\* An interruption removed a handle whose 'ended' event is still to come, and a
\* chunk scheduled afterwards is in the set.
C12_Witness ==
  \E h, g \in DOMAIN nodes :
    /\ nodes[h].status = "stopped"
    /\ h \notin sourceNodesRef
    /\ nodes[g].status = "scheduled"
    /\ sourceNodesRef = {g}

\* C13: without an API key the error screen is shown and nothing that opens a
\* session is attempted: no call attempt starts, no camera or microphone is
\* acquired, no audio context is created and no connect is made.
C13_NoKeyNoSession ==
  ~apiKey =>
    /\ showApiKeyError
    /\ ~mounted
    /\ \A a \in Calls : pc[a] = "idle" /\ session[a] = "none" /\ promise[a] = "none"
    /\ liveStreams = {}
    /\ streamRef = 0
    /\ ctxMade = {}
    /\ sessionPromiseRef = 0

\* The application was started without an API key.
C13_Witness == ~apiKey /\ showApiKeyError /\ connectionState = "DISCONNECTED"

\* The usual conversion of a float sample to int16: scaled by 32768, the
\* fraction dropped, limited to [-32768, 32767].
ReferenceInt16(n) == Max(0 - 32768, Min(32767, Truncate(Clamp(n) * 32768, SampleDenom)))

Abs(x) == IF x < 0 THEN 0 - x ELSE x

\* C14: for samples in [-1, 1] the encoder gives one int16 per sample, within
\* one unit of the sample times 32768 (negative) or times 32767 (non-negative),
\* with -1 and 1 at the ends of the int16 range, and within 1 of the reference.
C14_PcmEncoding ==
  pcmBlob # <<>> =>
    /\ Len(pcmBlob) = Len(inputData)
    /\ \A i \in DOMAIN inputData :
         LET n == inputData[i]
             v == pcmBlob[i]
         IN Abs(n) <= SampleDenom =>
              /\ v \in (0 - 32768)..32767
              /\ n < 0 => Abs(v * SampleDenom - n * 32768) < SampleDenom
              /\ n >= 0 => Abs(v * SampleDenom - n * 32767) < SampleDenom
              /\ n = 0 - SampleDenom => v = 0 - 32768
              /\ n = SampleDenom => v = 32767
              /\ Abs(v - ReferenceInt16(n)) <= 1

\* A buffer holding -1 and 1 was encoded to the two ends of the int16 range.
C14_Witness ==
  /\ inputData = <<0 - SampleDenom, SampleDenom>>
  /\ pcmBlob = <<0 - 32768, 32767>>

\* C15: the start time given to source.start is never earlier than the playback
\* clock at the moment the chunk is scheduled.
C15_StartNotInPast ==
  [][Scheduled => NewNode.start >= clk[NewNode.ctx]]_vars

\* C16: of two chunks received one right after the other and both scheduled, with
\* no interruption in between, the later begins exactly where the earlier ends.
C16_ArrivalOrderBackToBack ==
  \A h, g \in DOMAIN nodes :
    (/\ g = h + 1
     /\ nodes[h].status = "scheduled"
     /\ nodes[g].status = "scheduled"
     /\ nodes[h].ctx = nodes[g].ctx)
      => nodes[g].start = nodes[h].start + nodes[h].dur

\* The onmessage invocations whose decode failed in this step.
Failed == {m \in decodes \ decodes' : m.id \in dropped'}

\* C17, as stated: after an onmessage whose decode failed the cursor has the value
\* it had before the message arrived, and the handle set and the connection state
\* are unchanged.
C17_FailedChunkLeavesCursor ==
  [][\A m \in Failed :
       /\ connectionState' = connectionState
       /\ ~m.intr => /\ ~m.rose
                     /\ UNCHANGED <<nextStartTimeRef, sourceNodesRef>>]_vars

\* C17, amended: the failure of a decode changes neither the cursor, which keeps
\* the value line 257 gave it on arrival, nor the handle set, the sources, the
\* connection state or the session; no source is created.
C17_FailedChunkDropped ==
  [][\A m \in Failed :
       /\ UNCHANGED <<connectionState, session, isConnectedRef, audioContextRef>>
       /\ DOMAIN nodes' = DOMAIN nodes
       /\ ~m.intr => UNCHANGED <<nextStartTimeRef, sourceNodesRef, nodes>>]_vars

\* The decode of the first chunk failed and the second chunk was scheduled at the
\* cursor the first had left untouched.
C17_Witness ==
  /\ dropped = {1}
  /\ connectionState = "CONNECTED"
  /\ 2 \in DOMAIN nodes
  /\ nodes[2].status = "scheduled"
  /\ nodes[2].start = 0
  /\ nextStartTimeRef = nodes[2].dur

\* C18: when a run of disconnect has finished, the set of playback handles is
\* empty and no source is left scheduled.
C18_DisconnectCancelsPlayback ==
  discLog # <<>> =>
    /\ sourceNodesRef = {}
    /\ \A h \in DOMAIN nodes : nodes[h].status # "scheduled"

\* C19: once a remote failure has put the state to ERROR, it stays ERROR until a
\* new call sets CONNECTING, as long as the component is mounted.
C19_ErrorUntilRetry ==
  [][(connectionState = "ERROR" /\ error = "connection" /\ mounted')
       => connectionState' \in {"ERROR", "CONNECTING"}]_vars

\* C20: within the audio stream and within the video stream, payloads are given
\* to sendRealtimeInput in the order in which they were captured.
C20_SentInCaptureOrder ==
  \A i, j \in DOMAIN sentLog :
    (i < j /\ sentLog[i].k = sentLog[j].k) => sentLog[i].id < sentLog[j].id

\* C21: a send that throws is only logged: in the step of a capture callback
\* whose sendRealtimeInput throws, the connection state, the connected flag, the
\* audio callbacks, the video timers, the session and the queued continuations
\* stay as they were and no frame is put back; the payload is given to
\* sendRealtimeInput once and never again.
C21_SendFailureOnlyLogged ==
  [][/\ \A i, j \in DOMAIN sentLog' : i < j => sentLog'[i].id # sentLog'[j].id
     /\ (/\ Len(sentLog') > Len(sentLog)
         /\ promise' = promise
         /\ sentLog'[Len(sentLog')].threw)
          => /\ Len(sentLog') = Len(sentLog) + 1
             /\ UNCHANGED <<connectionState, error, isConnectedRef, sessionPromiseRef,
                            videoIntervalRef, activeTimers, procs, closedIn, session,
                            conts>>
             /\ frames' \subseteq frames]_vars

\* A send threw, the call is still CONNECTED and a payload captured later was
\* sent without throwing.
C21_Witness ==
  /\ Len(sentLog) = 2
  /\ sentLog[1].threw
  /\ ~sentLog[2].threw
  /\ sentLog[2].id > sentLog[1].id
  /\ connectionState = "CONNECTED"
  /\ isConnectedRef

\* C22: at most one video interval and at most one audio callback on an open
\* input context exist at any time.
C22_OneTimerOneCallback ==
  /\ Cardinality(activeTimers) <= 1
  /\ Cardinality(procs \ closedIn) <= 1

\* C23: no chunk whose decode was pending when an interruption received after it
\* was handled is scheduled afterwards.
C23_NoPlaybackOfInterrupted ==
  [][Scheduled => (DOMAIN nodes' \ DOMAIN nodes) \cap preIntr = {}]_vars

\* C24: every sendRealtimeInput goes to the session of the promise the ref held
\* when the payload was captured.
C24_SentToCapturingSession == \A s \in sentNow : s.to = s.cap

\* C25: isLoading is true whenever a generateContent request is in flight.
C25_LoadingWhileInFlight == generating # {} => isLoading

====
